---- MODULE Spec2Model ----
(***************************************************************************)
(* A model of generator.py: the energy-bar video job                       *)
(* (generate_energy_bar_video), the batch worker and the controls of       *)
(* WaveformApp, the spectral feature normalisation                         *)
(* (extract_audio_features) and the bar geometry                           *)
(* (create_energy_bar_frame and the draw_* functions).                     *)
(***************************************************************************)
EXTENDS Integers, Sequences, FiniteSets, TLC

VARIABLES
    surface,       \* the root window: "open" | "closed"
    folder,        \* folder_path_var: "" | "dir"
    start_button,  \* state of start_button: "normal" | "disabled"
    starts,        \* worker threads spawned so far
    workers,       \* worker threads running now
    ffmpeg_ok,     \* what check_ffmpeg_installed() returns
    files,         \* the audio files os.listdir finds in the folder
    style_params,  \* [fps, n_bands, width, height]
    out_dir,       \* the output's parent directory: "exists" | "missing" | "empty"
    wpc,           \* position of _process_folder_thread
    i,             \* index of the file being processed (enumerate(audio_files, 1))
    attempts,      \* the files generate_energy_bar_video was entered for, in order
    outputs,       \* the files whose output the external encoder produced
    calls,         \* every invocation of the progress sink in this batch, in order
    job,           \* the locals of generate_energy_bar_video
    mel,           \* extract_audio_features: band powers, as exponents of 10
    normalized,    \* extract_audio_features: the returned matrix
    frame,         \* create_energy_bar_frame: its arguments
    shapes         \* create_energy_bar_frame: the shapes handed to cv2 for one bar

guiVars   == <<folder, start_button, starts, workers, ffmpeg_ok>>
envVars   == <<files, style_params>>
batchVars == <<wpc, i, attempts>>
pureVars  == <<mel, normalized, frame, shapes>>
vars == <<surface, folder, start_button, starts, workers, ffmpeg_ok, files,
          style_params, out_dir, wpc, i, attempts, outputs, calls, job,
          mel, normalized, frame, shapes>>

----------------------------------------------------------------------------
(* Bounds of the model *)

\* Files in the folder.
MaxFiles == 2
\* Activations of the start control that spawn a worker.
MaxStarts == 2
\* Files in the folder when the controls are exercised.
MaxBatch == 1
\* Short durations, in units of 1/50 s: 0 .. MaxShortUnits.
MaxShortUnits == 3

----------------------------------------------------------------------------
(* Program constants *)

\* librosa.load(audio_path, sr=22050)
sr == 22050
\* batch_size = 100
batch_size == 100
\* batch_start % (batch_size * 5)
report_every == 5

Min(a, b) == IF a < b THEN a ELSE b
Max(a, b) == IF a > b THEN a ELSE b

\* Samples in one duration unit of 1/50 s at 22050 Hz.
UnitSamples == sr \div 50

----------------------------------------------------------------------------
(* Exceptions *)

NoExc             == [type |-> "none"]
TclError          == [type |-> "TclError"]
LoadError         == [type |-> "LoadError"]
ZeroDivisionError == [type |-> "ZeroDivisionError"]
ParameterError    == [type |-> "ParameterError"]
ValueError        == [type |-> "ValueError"]
RenderError       == [type |-> "cv2.error"]
OSError           == [type |-> "OSError"]
FileNotFoundError == [type |-> "FileNotFoundError"]
WriterError       == [type |-> "Exception", text |-> "cannot create video writer"]

----------------------------------------------------------------------------
(* extract_audio_features.  A band power p of the mel spectrogram is held   *)
(* as its decimal exponent e (p = 10^e), so that 10*log10(p) = 10*e; the    *)
(* power 0 of a silent signal is ZeroPower, below every floor.              *)

\* The exponent standing for a band power of 0.
ZeroPower == -99
\* librosa.power_to_db: amin = 1e-10
amin_exp == -10
\* librosa.power_to_db: top_db = 80.0
top_db == 80
\* Bands and frames of the mel spectrograms drawn as inputs.
FeatBands == 2
FeatFrames == 2
PowerExps == {ZeroPower, -12, -3, 0}

SetMax(S) == CHOOSE x \in S : \A y \in S : y <= x
SetMin(S) == CHOOSE x \in S : \A y \in S : x <= y
Entries(m) == {m[b][f] : b \in DOMAIN m, f \in DOMAIN m[1]}

\* librosa.power_to_db(S, ref=np.max):
\*   log_spec = 10*log10(max(amin, S)) - 10*log10(max(amin, ref(S)))
\*   log_spec = max(log_spec, log_spec.max() - top_db)
power_to_db(S) ==
    LET ref == SetMax(Entries(S))
        log_spec == [b \in DOMAIN S |-> [f \in DOMAIN S[b] |->
                        10 * Max(amin_exp, S[b][f]) - 10 * Max(amin_exp, ref)]]
        top == SetMax(Entries(log_spec))
    IN  [b \in DOMAIN S |-> [f \in DOMAIN S[b] |-> Max(log_spec[b][f], top - top_db)]]

\* (log_mel - log_mel.min()) / (log_mel.max() - log_mel.min()): each entry is
\* the pair <<numerator, denominator>>; numpy's float 0.0/0.0 is NaN.
Normalize(log_mel) ==
    LET lo == SetMin(Entries(log_mel))
        hi == SetMax(Entries(log_mel))
    IN  [b \in DOMAIN log_mel |-> [f \in DOMAIN log_mel[b] |->
            <<log_mel[b][f] - lo, hi - lo>>]]

IsNaN(v) == v[2] = 0

\* normalized = extract_audio_features(...), from the mel spectrogram on.
extract_audio_features(S) == Normalize(power_to_db(S))

\* The mel spectrogram of an all-zero signal: the STFT magnitude is 0 and so
\* is every band.
SilentMel(nb, nf) == [b \in 1..nb |-> [f \in 1..nf |-> ZeroPower]]

\* hop_length = int(sr * (1.0 / fps)); fps = 0 raises before this is used.  The
\* float product truncates to sr \div fps for every fps used here (it does
\* not for fps = 49 and 98).
hop_length(rate, fps) == rate \div fps

\* features.shape[1]: librosa.stft (center=True) yields 1 + len(y) // hop_length
\* columns.
TotalFrames(samples, hop) == 1 + samples \div hop

----------------------------------------------------------------------------
(* The progress sink.  In the application it is WaveformApp.log_message,   *)
(* called on the worker thread while the user may close the root window.   *)

\* What one call of log_message can do, and the surface after it.
\*   open:   the text is inserted; or the window is closed between the
\*           winfo_exists() test and the widget calls, which then raise.
\*   closed: winfo_exists() on the destroyed root answers false (the message is
\*           dropped) or raises TclError ("application has been destroyed").
log_message(s) ==
    IF s = "open"
    THEN {[out |-> "shown", surface |-> "open"], [out |-> "raised", surface |-> "closed"]}
    ELSE {[out |-> "dropped", surface |-> "closed"], [out |-> "raised", surface |-> "closed"]}

\* progress_callback(kind) inside generate_energy_bar_video: the job goes on as
\* `ok`, or as `bad` when the call raises.
Callback(kind, ok, bad) ==
    \E o \in log_message(surface) :
        /\ calls' = Append(calls, [file |-> i, kind |-> kind, out |-> o.out])
        /\ surface' = o.surface
        /\ job' = IF o.out = "raised" THEN bad ELSE ok

----------------------------------------------------------------------------
(* generate_energy_bar_video *)

IdleJob ==
    [pc |-> "idle", total_frames |-> 0, batch_start |-> 0, batch_end |-> 0,
     frame_idx |-> 0, temp_video |-> "unset", writer |-> "none", written |-> <<>>,
     exc |-> NoExc, last_error |-> NoExc, faults |-> {}, removal |-> "none",
     result |-> [returncode |-> 0, stderr |-> ""], mux_runs |-> 0,
     hop_length |-> 0, shape |-> <<0, 0>>, feat_nan |-> FALSE, size |-> <<0, 0>>]

\* The job runs on a live thread: the batch worker, or a direct caller.
Running == wpc \in {"in_job", "direct"}

At(pc) == Running /\ job.pc = pc

\* An exception raised inside the try block: control goes to the handler.
Raise(j, e) == [j EXCEPT !.pc = "except", !.exc = e]
Fault(j, stage, e) == [Raise(j, e) EXCEPT !.faults = @ \cup {stage}]
Goto(j, pc) == [j EXCEPT !.pc = pc]

\* The function is left: normally, or by the exception still in flight.
Leave(j) == [j EXCEPT !.pc = IF j.exc = NoExc THEN "returned" ELSE "raised"]

rest == <<guiVars, envVars, batchVars, pureVars>>

\* progress_callback("开始处理: ...")
JobStart ==
    /\ At("start")
    /\ Callback("start", Goto(job, "load"), Raise(job, TclError))
    /\ UNCHANGED <<rest, out_dir, outputs>>

\* The load without the test of the duration.
LoadAudioNoDurationCheck ==
    /\ At("load")
    /\ job' = IF files[i].kind = "corrupt" THEN Fault(job, "load", LoadError)
              ELSE Goto(job, "loaded_msg")
    /\ UNCHANGED <<rest, out_dir, outputs, surface, calls>>

\* y, sr = librosa.load(...); duration_sec = librosa.get_duration(...)
LoadAudio ==
    /\ At("load")
    /\ job' = IF files[i].kind = "corrupt" THEN Fault(job, "load", LoadError)
              ELSE IF files[i].samples = 0 THEN Goto(job, "empty_msg")
              ELSE Goto(job, "loaded_msg")
    /\ UNCHANGED <<rest, out_dir, outputs, surface, calls>>

\* if duration_sec == 0: progress_callback(...); return
EmptyAudio ==
    /\ At("empty_msg")
    /\ Callback("empty", Goto(job, "finally"), Raise(job, TclError))
    /\ UNCHANGED <<rest, out_dir, outputs>>

\* progress_callback("音频加载完成 ...")
LoadedMsg ==
    /\ At("loaded_msg")
    /\ Callback("loaded", Goto(job, "extract"), Raise(job, TclError))
    /\ UNCHANGED <<rest, out_dir, outputs>>

\* fps, n_bands, hop_length; features = extract_audio_features(...);
\* total_frames = features.shape[1]
ExtractFeatures ==
    /\ At("extract")
    /\ job' =
         IF style_params.fps = 0 THEN Fault(job, "extract", ZeroDivisionError)
         ELSE LET hop == hop_length(sr, style_params.fps) IN
              IF hop = 0 THEN Fault(job, "extract", ParameterError)
              ELSE LET n == TotalFrames(files[i].samples, hop) IN
                   [job EXCEPT !.pc = "extracted_msg",
                               !.hop_length = hop,
                               !.total_frames = n,
                               !.shape = <<style_params.n_bands, n>>,
                               !.feat_nan = /\ files[i].silent
                                            /\ IsNaN(extract_audio_features(SilentMel(1, 1))[1][1])]
    /\ UNCHANGED <<rest, out_dir, outputs, surface, calls>>

\* progress_callback("特征提取完成 ...")
ExtractedMsg ==
    /\ At("extracted_msg")
    /\ Callback("extracted", Goto(job, "mktemp"), Raise(job, TclError))
    /\ UNCHANGED <<rest, out_dir, outputs>>

\* temp_video = tempfile.NamedTemporaryFile(suffix='.mp4', delete=False).name
MakeTemp ==
    /\ At("mktemp")
    /\ \E created \in BOOLEAN :
         job' = IF created THEN [job EXCEPT !.pc = "open_writer", !.temp_video = "exists"]
                ELSE Fault(job, "mktemp", OSError)
    /\ UNCHANGED <<rest, out_dir, outputs, surface, calls>>

\* width = style_params.get('width', 1280); height = style_params.get('height', 720):
\* the frame size handed to cv2.VideoWriter, and so the size of the scratch
\* video the external encoder reads.
WriterSize(style) == <<style.width, style.height>>

\* out = cv2.VideoWriter(temp_video, fourcc, fps, (width, height));
\* if not out.isOpened(): raise Exception(...)
OpenWriter ==
    /\ At("open_writer")
    /\ \E opened \in BOOLEAN :
         LET j == [job EXCEPT !.size = WriterSize(style_params)] IN
         job' = IF opened THEN [j EXCEPT !.pc = "render_msg", !.writer = "open"]
                ELSE Fault(j, "writer", WriterError)
    /\ UNCHANGED <<rest, out_dir, outputs, surface, calls>>

\* The batch end without the cap at total_frames.
BatchEndNoMin(bs, total) == bs + batch_size

\* batch_end = min(batch_start + batch_size, total_frames)
BatchEnd(bs, total) == Min(bs + batch_size, total)

\* for batch_start in range(0, total_frames, batch_size): the head of the loop
\* with batch_start = bs, and of the inner range(batch_start, batch_end).
BatchHead(j, bs) ==
    IF bs < j.total_frames
    THEN LET be == BatchEnd(bs, j.total_frames) IN
         [j EXCEPT !.batch_start = bs, !.batch_end = be, !.frame_idx = bs,
                   !.pc = IF bs < be THEN "frame" ELSE "report"]
    ELSE [j EXCEPT !.pc = "release"]

\* progress_callback("开始生成视频帧..."); the batch loop is entered
RenderMsg ==
    /\ At("render_msg")
    /\ Callback("render_start", BatchHead(job, 0), Raise(job, TclError))
    /\ UNCHANGED <<rest, out_dir, outputs>>

\* The frame loop with a failed frame skipped instead of raised.
RenderFrameSkipOnError ==
    /\ At("frame")
    /\ job.frame_idx < job.batch_end
    /\ \E failed \in BOOLEAN :
         job' = IF job.feat_nan /\ job.frame_idx < job.shape[2]
                THEN Raise(job, ValueError)
                ELSE [job EXCEPT !.written = IF failed THEN @ ELSE Append(@, job.frame_idx),
                                 !.faults = IF failed THEN @ \cup {"render"} ELSE @,
                                 !.frame_idx = @ + 1,
                                 !.pc = IF job.frame_idx + 1 < job.batch_end
                                        THEN "frame" ELSE "report"]
    /\ UNCHANGED <<rest, out_dir, outputs, surface, calls>>

\* frame = create_energy_bar_frame(features, frame_idx, ...); out.write(frame)
\* A NaN energy makes int(energy * max_bar_height) raise ValueError; a frame
\* index past the matrix returns the blank frame before any bar is computed.
RenderFrame ==
    /\ At("frame")
    /\ job.frame_idx < job.batch_end
    /\ \E failed \in BOOLEAN :
         job' = IF job.feat_nan /\ job.frame_idx < job.shape[2]
                THEN Raise(job, ValueError)
                ELSE IF failed THEN Fault(job, "render", RenderError)
                ELSE [job EXCEPT !.written = Append(@, job.frame_idx),
                                 !.frame_idx = @ + 1,
                                 !.pc = IF job.frame_idx + 1 < job.batch_end
                                        THEN "frame" ELSE "report"]
    /\ UNCHANGED <<rest, out_dir, outputs, surface, calls>>

\* The report keyed on the end of the batch instead of its start.
ReportsAtBatchEnd(bs) == (bs + batch_size) % (batch_size * report_every) = 0

\* if batch_start % (batch_size * 5) == 0
Reports(bs) == bs % (batch_size * report_every) = 0

\* the end of one batch: the progress report, then the next batch_start
ReportProgress ==
    /\ At("report")
    /\ LET next == BatchHead(job, job.batch_start + batch_size) IN
       IF Reports(job.batch_start)
       THEN Callback("progress", next, Raise(job, TclError))
       ELSE job' = next /\ UNCHANGED <<surface, calls>>
    /\ UNCHANGED <<rest, out_dir, outputs>>

\* out.release(); progress_callback("视频帧生成完成 ...")
ReleaseWriter ==
    /\ At("release")
    /\ LET j == [job EXCEPT !.writer = "released"] IN
       Callback("render_done", Goto(j, "mux_msg"), Raise(j, TclError))
    /\ UNCHANGED <<rest, out_dir, outputs>>

\* progress_callback("正在合并音频...")
MuxMsg ==
    /\ At("mux_msg")
    /\ Callback("mux_start", Goto(job, "mkdir"), Raise(job, TclError))
    /\ UNCHANGED <<rest, out_dir, outputs>>

\* output_dir = os.path.dirname(output_video_path)
\* if not os.path.exists(output_dir): os.makedirs(output_dir)
\* os.makedirs('') raises FileNotFoundError.
MakeOutputDir ==
    /\ At("mkdir")
    /\ \E made \in BOOLEAN :
         IF out_dir = "exists"
         THEN job' = Goto(job, "ffmpeg") /\ UNCHANGED out_dir
         ELSE IF out_dir = "empty"
         THEN job' = Fault(job, "makedirs", FileNotFoundError) /\ UNCHANGED out_dir
         ELSE IF made
         THEN job' = Goto(job, "ffmpeg") /\ out_dir' = "exists"
         ELSE job' = Fault(job, "makedirs", OSError) /\ UNCHANGED out_dir
    /\ UNCHANGED <<rest, outputs, surface, calls>>

ReturnCodes == {0, 1, 2}
Diagnostics == {"", "diag"}

IsEven(n) == n % 2 = 0

\* '-c:v', 'libx264' with no scaling or padding filter and no pixel format:
\* the encoder keeps the 4:2:0 format of the scratch video and refuses a
\* frame whose width or height is odd, and ffmpeg exits non-zero.
EncoderCodes(size) ==
    IF IsEven(size[1]) /\ IsEven(size[2]) THEN ReturnCodes ELSE ReturnCodes \ {0}

\* raise Exception(f"FFmpeg错误: {result.stderr}")
FfmpegError(result) == [type |-> "Exception", text |-> "FFmpeg error", stderr |-> result.stderr]

\* result = subprocess.run(cmd, capture_output=True, ...)
\* if result.returncode != 0: raise Exception(...)
RunFfmpeg ==
    /\ At("ffmpeg")
    /\ \E rc \in EncoderCodes(job.size), err \in Diagnostics :
         LET result == [returncode |-> rc, stderr |-> err]
             j == [job EXCEPT !.result = result, !.mux_runs = @ + 1]
         IN  IF result.returncode # 0
             THEN job' = Fault(j, "ffmpeg", FfmpegError(result)) /\ UNCHANGED outputs
             ELSE job' = Goto(j, "merged_msg") /\ outputs' = outputs \cup {i}
    /\ UNCHANGED <<rest, out_dir, surface, calls>>

\* progress_callback("音频合并完成 ...")
MergedMsg ==
    /\ At("merged_msg")
    /\ Callback("merged", Goto(job, "success_msg"), Raise(job, TclError))
    /\ UNCHANGED <<rest, out_dir, outputs>>

\* progress_callback("成功创建: ...")
SuccessMsg ==
    /\ At("success_msg")
    /\ Callback("success", Goto(job, "finally"), Raise(job, TclError))
    /\ UNCHANGED <<rest, out_dir, outputs>>

\* except Exception as e: progress_callback("处理 ... 时发生错误: {e}")
\* An exception of the handler's own call leaves through the finally block.
ExceptHandler ==
    /\ At("except")
    /\ LET j == [job EXCEPT !.last_error = job.exc] IN
       Callback("error", [j EXCEPT !.pc = "finally", !.exc = NoExc],
                         [j EXCEPT !.pc = "finally", !.exc = TclError])
    /\ UNCHANGED <<rest, out_dir, outputs>>

\* os.remove(temp_video): done, refused (the file is locked or protected), or
\* failed another way (the file is gone meanwhile, an I/O error).
RemoveOutcomes == {"ok", "PermissionError", "OSError"}

\* try: os.remove(temp_video)
\* except PermissionError: progress_callback(...)
RemoveTemp(j, outcome) ==
    IF outcome = "ok"
    THEN Leave([j EXCEPT !.temp_video = "removed", !.removal = outcome])
    ELSE IF outcome = "PermissionError"
    THEN [j EXCEPT !.pc = "warn", !.removal = outcome]
    ELSE Leave([j EXCEPT !.exc = OSError, !.removal = outcome])

\* finally: if 'temp_video' in locals() and os.path.exists(temp_video): ...
Finally ==
    /\ At("finally")
    /\ \E outcome \in RemoveOutcomes :
         job' = IF job.temp_video = "exists"
                THEN RemoveTemp(job, outcome)
                ELSE Leave(job)
    /\ UNCHANGED <<rest, out_dir, outputs, surface, calls>>

\* progress_callback("无法立即删除临时文件: ...")
WarnCleanup ==
    /\ At("warn")
    /\ Callback("warning", Leave(job), Leave([job EXCEPT !.exc = TclError]))
    /\ UNCHANGED <<rest, out_dir, outputs>>

JobNext ==
    \/ JobStart \/ LoadAudio \/ EmptyAudio \/ LoadedMsg \/ ExtractFeatures
    \/ ExtractedMsg \/ MakeTemp \/ OpenWriter \/ RenderMsg \/ RenderFrame
    \/ ReportProgress \/ ReleaseWriter \/ MuxMsg \/ MakeOutputDir \/ RunFfmpeg
    \/ MergedMsg \/ SuccessMsg \/ ExceptHandler \/ Finally \/ WarnCleanup

----------------------------------------------------------------------------
(* WaveformApp: the controls (main thread) and _process_folder_thread *)

\* select_folder: the dialog returns a folder, which is stored.
select_folder ==
    /\ surface = "open"
    /\ folder' = "dir"
    /\ UNCHANGED <<surface, start_button, starts, workers, ffmpeg_ok, envVars,
                   out_dir, batchVars, outputs, calls, job, pureVars>>

\* start_processing without line 692: the control is left enabled.
start_processingNoDisable ==
    /\ surface = "open"
    /\ start_button = "normal"
    /\ starts < MaxStarts
    /\ IF folder = "" \/ ~ffmpeg_ok
       THEN UNCHANGED <<start_button, starts, workers, wpc, i, attempts, outputs,
                        calls, job>>
       ELSE /\ UNCHANGED start_button
            /\ starts' = starts + 1
            /\ workers' = workers + 1
            /\ wpc' = "listdir"
            /\ i' = 0
            /\ attempts' = <<>>
            /\ outputs' = {}
            /\ calls' = <<>>
            /\ job' = IdleJob
    /\ UNCHANGED <<surface, folder, ffmpeg_ok, envVars, out_dir, pureVars>>

\* start_processing: the command of start_button, which a disabled button does
\* not run.  The two early returns show an error box and change nothing.
start_processing ==
    /\ surface = "open"
    /\ start_button = "normal"
    /\ starts < MaxStarts
    /\ IF folder = "" \/ ~ffmpeg_ok
       THEN UNCHANGED <<start_button, starts, workers, wpc, i, attempts, outputs,
                        calls, job>>
       ELSE /\ start_button' = "disabled"
            /\ starts' = starts + 1
            /\ workers' = workers + 1
            /\ wpc' = "listdir"
            /\ i' = 0
            /\ attempts' = <<>>
            /\ outputs' = {}
            /\ calls' = <<>>
            /\ job' = IdleJob
    /\ UNCHANGED <<surface, folder, ffmpeg_ok, envVars, out_dir, pureVars>>

\* The user closes the root window (or the owner of the sink goes away).
CloseSurface ==
    /\ surface = "open"
    /\ surface' = "closed"
    /\ UNCHANGED <<guiVars, envVars, out_dir, batchVars, outputs, calls, job, pureVars>>

\* mainloop() returns once the window is closed and the interpreter exits: the
\* worker is a daemon thread and stops wherever it is.
InterpreterExit ==
    /\ surface = "closed"
    /\ workers > 0
    /\ wpc' = "killed"
    /\ workers' = 0
    /\ UNCHANGED <<surface, folder, start_button, starts, ffmpeg_ok, envVars,
                   out_dir, i, attempts, outputs, calls, job, pureVars>>

\* self.log_message(kind) on the worker thread, outside any job: the worker
\* goes on at `ok`, or to the outer handler when the call raises.
WorkerLog(kind, ok) ==
    \E o \in log_message(surface) :
        /\ calls' = Append(calls, [file |-> i, kind |-> kind, out |-> o.out])
        /\ surface' = o.surface
        /\ wpc' = IF o.out = "raised" THEN "outer_except" ELSE ok

\* audio_files = [...]; the early return; os.makedirs(..., exist_ok=True);
\* style_params; the five header messages
ListFiles ==
    /\ wpc = "listdir"
    /\ \E made \in BOOLEAN :
         IF files = <<>>
         THEN WorkerLog("no_files", "finally") /\ UNCHANGED <<out_dir, i>>
         ELSE IF ~made
         THEN wpc' = "outer_except" /\ UNCHANGED <<out_dir, i, calls, surface>>
         ELSE WorkerLog("header", "loop") /\ out_dir' = "exists" /\ i' = 1
    /\ UNCHANGED <<guiVars, envVars, attempts, outputs, job, pureVars>>

\* for i, audio_file_name in enumerate(audio_files, 1):
\*     if not self.root.winfo_exists(): log; break
\*     self.log_message("[i/n] ..."); ...; generate_energy_bar_video(...)
NextFile ==
    /\ wpc = "loop"
    /\ IF i > Len(files)
       THEN wpc' = "summary" /\ UNCHANGED <<surface, calls, attempts, job>>
       ELSE \E o \in log_message(surface) :
              /\ surface' = o.surface
              /\ IF o.out = "shown"
                 THEN /\ calls' = Append(calls, [file |-> i, kind |-> "file", out |-> o.out])
                      /\ wpc' = "in_job"
                      /\ attempts' = Append(attempts, i)
                      /\ job' = [IdleJob EXCEPT !.pc = "start"]
                 ELSE IF o.out = "dropped"
                 THEN /\ calls' = Append(calls, [file |-> i, kind |-> "cancelled", out |-> o.out])
                      /\ wpc' = "summary"
                      /\ UNCHANGED <<attempts, job>>
                 ELSE /\ calls' = IF surface = "open"
                                 THEN Append(calls, [file |-> i, kind |-> "file", out |-> o.out])
                                 ELSE calls
                      /\ wpc' = "outer_except"
                      /\ UNCHANGED <<attempts, job>>
    /\ UNCHANGED <<guiVars, envVars, out_dir, i, outputs, pureVars>>

\* generate_energy_bar_video has returned: the two closing messages of the
\* file; or it has raised, and the outer handler takes over.
AfterJob ==
    /\ wpc = "in_job"
    /\ job.pc \in {"returned", "raised"}
    /\ IF job.pc = "raised"
       THEN wpc' = "outer_except" /\ UNCHANGED <<surface, calls, i>>
       ELSE WorkerLog("file_done", "loop") /\ i' = IF wpc' = "loop" THEN i + 1 ELSE i
    /\ UNCHANGED <<guiVars, envVars, out_dir, attempts, outputs, job, pureVars>>

\* the four closing messages of the batch
Summary ==
    /\ wpc = "summary"
    /\ WorkerLog("summary", "finally")
    /\ UNCHANGED <<guiVars, envVars, out_dir, i, attempts, outputs, job, pureVars>>

\* except Exception as e: self.log_message("... 严重错误 ...")
OuterExcept ==
    /\ wpc = "outer_except"
    /\ \E o \in log_message(surface) :
        /\ calls' = Append(calls, [file |-> i, kind |-> "fatal", out |-> o.out])
        /\ surface' = o.surface
        /\ wpc' = "finally"
    /\ UNCHANGED <<guiVars, envVars, out_dir, i, attempts, outputs, job, pureVars>>

\* finally: if self.root.winfo_exists(): self.start_button.config(state=NORMAL)
\* and the thread ends.
WorkerFinally ==
    /\ wpc = "finally"
    /\ start_button' = IF surface = "open" THEN "normal" ELSE start_button
    /\ workers' = workers - 1
    /\ wpc' = "idle"
    /\ UNCHANGED <<surface, folder, starts, ffmpeg_ok, envVars, out_dir, i,
                   attempts, outputs, calls, job, pureVars>>

----------------------------------------------------------------------------
(* Inputs *)

Corrupt == [kind |-> "corrupt", samples |-> 0, silent |-> FALSE]
Audio(units, silent) == [kind |-> "audio", samples |-> units * UnitSamples, silent |-> silent]

\* The files of a batch: a corrupt one, an empty one, short clips, a silent clip.
BatchFiles == {Corrupt} \cup {Audio(u, FALSE) : u \in 0..MaxShortUnits} \cup {Audio(1, TRUE)}

\* Durations (in 1/50 s) of the long clips of a single job: 5 s, and clips
\* around one, two and five batches of frames at 25 fps.
LongUnits == {198, 200, 250, 398, 1000, 1002}
JobFiles == BatchFiles \cup {Audio(u, FALSE) : u \in LongUnits}

FpsChoices == {24, 25}
Style(fps, n_bands) == [fps |-> fps, n_bands |-> n_bands, width |-> 1280, height |-> 720]
BatchStyles == {Style(fps, 64) : fps \in {0, 25}}
\* width_var and height_var are free integer entries: frames with an odd
\* width, and with an odd height.
OddStyles == {[Style(25, 64) EXCEPT !.width = 1281], [Style(25, 64) EXCEPT !.height = 721]}
JobStyles == {Style(fps, 64) : fps \in FpsChoices} \cup OddStyles

FileLists(n) == UNION {[1..k -> BatchFiles] : k \in 0..n}

NoFrame == [width |-> 0, height |-> 0, n_bands |-> 0, bar_style |-> "none"]

InitPure ==
    /\ mel = <<>>
    /\ normalized = <<>>
    /\ frame = NoFrame
    /\ shapes = <<>>

\* The application after construction, with the folder's content.
Init ==
    /\ surface = "open"
    /\ folder = ""
    /\ start_button = "normal"
    /\ starts = 0
    /\ workers = 0
    /\ ffmpeg_ok \in BOOLEAN
    /\ files \in FileLists(MaxFiles)
    /\ style_params \in BatchStyles
    /\ out_dir \in {"missing", "exists"}
    /\ wpc = "idle"
    /\ i = 0
    /\ attempts = <<>>
    /\ outputs = {}
    /\ calls = <<>>
    /\ job = IdleJob
    /\ InitPure

Next ==
    \/ select_folder \/ start_processing \/ CloseSurface \/ InterpreterExit
    \/ ListFiles \/ NextFile \/ AfterJob \/ Summary \/ OuterExcept \/ WorkerFinally
    \/ JobNext

Spec == Init /\ [][Next]_vars

\* The application with at most MaxBatch files in the folder and the default
\* settings: the controls and the worker over several activations.
InitControls ==
    /\ surface = "open"
    /\ folder = ""
    /\ start_button = "normal"
    /\ starts = 0
    /\ workers = 0
    /\ ffmpeg_ok \in BOOLEAN
    /\ files \in FileLists(MaxBatch)
    /\ style_params = Style(25, 64)
    /\ out_dir = "missing"
    /\ wpc = "idle"
    /\ i = 0
    /\ attempts = <<>>
    /\ outputs = {}
    /\ calls = <<>>
    /\ job = IdleJob
    /\ InitPure

SpecControls == InitControls /\ [][Next]_vars

\* One call of generate_energy_bar_video by a direct caller, with any sink.
InitJob ==
    /\ surface = "open"
    /\ folder = "dir"
    /\ start_button = "normal"
    /\ starts = 0
    /\ workers = 0
    /\ ffmpeg_ok = TRUE
    /\ files \in {<<f>> : f \in JobFiles}
    /\ style_params \in JobStyles
    /\ out_dir \in {"missing", "exists", "empty"}
    /\ wpc = "direct"
    /\ i = 1
    /\ attempts = <<1>>
    /\ outputs = {}
    /\ calls = <<>>
    /\ job = [IdleJob EXCEPT !.pc = "start"]
    /\ InitPure

NextJob == CloseSurface \/ JobNext

SpecJob == InitJob /\ [][NextJob]_vars

----------------------------------------------------------------------------
(* Properties of one job and of a batch *)

\* generate_energy_bar_video has been left, and its caller has not moved on.
JobEnded == Running /\ job.pc \in {"returned", "raised"}

\* How often the sink was invoked with `kind` for file k.
Count(k, kind) == Cardinality({n \in 1..Len(calls) : calls[n].file = k /\ calls[n].kind = kind})
Sent(kind) == Count(i, kind) > 0

\* The indices 0 .. n-1 in increasing order.
UpTo(n) == [k \in 1..n |-> k - 1]

\* C1: whenever the job has been left and the scratch file had been created,
\* the scratch file is gone, unless removing it failed, and then a warning was
\* sent to the progress sink.
C1_ScratchRemovedOrWarned ==
    (JobEnded /\ job.temp_video # "unset")
        => (job.temp_video = "removed" \/ Sent("warning"))

\* C2: the job never leaves by an exception, and a job in which a stage failed
\* has reported an error through the progress sink when it is left.
C2_NoExceptionEscapes ==
    /\ Running => job.pc # "raised"
    /\ (JobEnded /\ job.faults # {}) => Sent("error")

\* The worker has ended after reaching the loop over the files, and the
\* control surface is still open.
BatchEnded == starts > 0 /\ wpc = "idle" /\ i >= 1 /\ surface = "open"

\* C3: when a batch that reached its files has ended with the control surface
\* still open, every file was attempted once, in list order, and each file has
\* exactly one success message with its output, or exactly one failure message
\* and no output.
C3_BatchIsolation ==
    BatchEnded =>
        /\ attempts = [k \in 1..Len(files) |-> k]
        /\ \A k \in 1..Len(files) :
             LET ok == Count(k, "success")
                 failed == Count(k, "error") + Count(k, "empty")
             IN  /\ ok + failed = 1
                 /\ ok = 1 <=> k \in outputs

\* C4: the encoder receives the frame indices in increasing order from 0, never
\* more than total_frames of them, and once the writer is released it has
\* received exactly 0 .. total_frames-1, with total_frames >= 1.
C4_FramesWrittenInOrder ==
    /\ job.written = UpTo(Len(job.written))
    /\ job.writer # "none" => Len(job.written) <= job.total_frames
    /\ job.writer = "released" =>
         /\ job.total_frames >= 1
         /\ job.written = UpTo(job.total_frames)
C4_Witness ==
    /\ job.writer = "released"
    /\ job.total_frames > batch_size
    /\ job.total_frames % batch_size # 0

\* The feature matrix of the job has been computed.
Extracted == job.hop_length > 0

\* C5: the frame count of the job is floor(duration * fps), the duration being
\* len(y) / sr; a 5 s signal at 25 fps with 64 bands gives the shape (64, 125).
C5_TotalFramesIsFloor ==
    Extracted =>
        /\ job.total_frames = (files[i].samples * style_params.fps) \div sr
        /\ (files[i].samples = 5 * sr /\ style_params.fps = 25 /\ style_params.n_bands = 64)
             => job.shape = <<64, 125>>

\* A file whose job has nothing to fail on: decodable, not empty, not silent.
GoodFile(f) == f.kind = "audio" /\ f.samples > 0 /\ ~f.silent

\* C8: a job that was entered and in which no stage failed ends with its
\* output and its success report, whatever happened to the control surface
\* meanwhile.
C8_JobRunsToOutcome ==
    (JobEnded /\ GoodFile(files[i]) /\ job.faults = {} /\ job.removal # "OSError")
        => (i \in outputs /\ Sent("success"))

\* The sink invocations of a successful job over n frames.
ProgressReports(n) == (n - 1) \div (batch_size * report_every) + 1
ExpectedKinds(n) ==
    <<"start", "loaded", "extracted", "render_start">>
    \o [k \in 1..ProgressReports(n) |-> "progress"]
    \o <<"render_done", "mux_start", "merged", "success">>

\* The job reported its success and that call returned.
Successful ==
    /\ Running
    /\ \E n \in 1..Len(calls) :
         calls[n].file = i /\ calls[n].kind = "success" /\ calls[n].out # "raised"

\* The kinds of the sink's invocations, the cleanup warning left out.
IsProgressKind(c) == c.kind # "warning"
ProgressKinds == [k \in 1..Len(SelectSeq(calls, IsProgressKind)) |->
                     SelectSeq(calls, IsProgressKind)[k].kind]

\* C9: in a successful job the sink was invoked for the job start, the load,
\* the extraction, the start of rendering, once per batch that starts at a
\* multiple of 500 frames (at least once), the end of rendering, the mux start,
\* the mux completion and the success, in this order; and the mux start is
\* never reported before the last frame is written.
C9_ProgressOrder ==
    /\ Successful => ProgressKinds = ExpectedKinds(job.total_frames)
    /\ (Running /\ Sent("mux_start")) =>
          (Len(job.written) = job.total_frames /\ job.writer = "released")
C9_Witness ==
    /\ Successful
    /\ job.pc = "returned"
    /\ Count(i, "progress") = 2

\* C10: after the external encoder exits non-zero, the error the job reports
\* carries the captured diagnostic output and the exit code, it is reported
\* through the sink, and no success message is sent.
C10_MuxFailureCarriesCodeAndOutput ==
    (Running /\ "ffmpeg" \in job.faults /\ job.pc \in {"finally", "warn", "returned", "raised"})
        => /\ Sent("error")
           /\ ~Sent("success")
           /\ "stderr" \in DOMAIN job.last_error
           /\ job.last_error.stderr = job.result.stderr
           /\ "returncode" \in DOMAIN job.last_error
           /\ job.last_error.returncode = job.result.returncode

\* C11: the frame size handed to the scratch video writer, and with the
\* scratch video to the external encoder, has an even width and an even
\* height whatever the configured size, and no job with an odd configured
\* size fails in the external encoder.
C11_EvenDimensions ==
    /\ job.size # <<0, 0>> => (IsEven(job.size[1]) /\ IsEven(job.size[2]))
    /\ (Running /\ ~(IsEven(style_params.width) /\ IsEven(style_params.height)))
          => "ffmpeg" \notin job.faults

\* The input of the job decodes to a signal of duration 0.
EmptySignal == Running /\ files[i].kind = "audio" /\ files[i].samples = 0

\* The job has loaded its input: the first sink call returned and
\* librosa.load has run.
Loaded ==
    /\ Running /\ job.pc \notin {"idle", "start", "load"}
    /\ \E n \in 1..Len(calls) :
         calls[n].file = i /\ calls[n].kind = "start" /\ calls[n].out # "raised"

\* C12: in a job whose input has duration 0 no features are extracted, no
\* scratch file is created, no writer is opened and no frame written, the
\* external encoder is not run and no success is reported; once the input is
\* loaded its duration 0 is reported through the progress sink, once, before
\* the job is left.
C12_EmptySignalReported ==
    EmptySignal =>
        /\ ~Extracted /\ job.total_frames = 0
        /\ job.temp_video = "unset"
        /\ job.writer = "none" /\ job.written = <<>>
        /\ job.mux_runs = 0 /\ i \notin outputs
        /\ ~Sent("success")
        /\ Count(i, "empty") <= 1
        /\ (Loaded /\ job.pc # "empty_msg") => Count(i, "empty") = 1
C12_Witness ==
    /\ EmptySignal
    /\ job.pc = "returned"
    /\ Count(i, "empty") = 1

\* C13: when the external encoder is run the parent directory of the output
\* exists, and no job fails for a parent directory that is missing or for an
\* output path with an empty directory component (a creation the file system
\* refuses is left aside).
C13_OutputDirReady ==
    Running =>
        /\ (job.pc = "ffmpeg" \/ job.mux_runs > 0) => out_dir = "exists"
        /\ job.exc # FileNotFoundError
        /\ job.last_error # FileNotFoundError

\* a / b rounded to the nearest integer, for a >= 0 and b > 0.
Round(a, b) == (2 * a + b) \div (2 * b)

\* C14: the hop length handed to the feature extraction is sr / fps rounded to
\* the nearest integer.
C14_HopLengthIsRounded ==
    Extracted => job.hop_length = Round(sr, style_params.fps)

\* C16: the external encoder is run at most once in a job, and when it is
\* about to run or has run, the writer was opened and released, every frame
\* 0 .. total_frames-1 was written, and neither opening the writer nor
\* rendering or writing a frame failed.
C16_MuxAfterAllFrames ==
    /\ job.mux_runs <= 1
    /\ (job.pc = "ffmpeg" \/ job.mux_runs > 0) =>
          /\ job.writer = "released"
          /\ job.total_frames >= 1
          /\ job.written = UpTo(job.total_frames)
          /\ job.faults \cap {"writer", "render"} = {}
          /\ job.last_error \notin {WriterError, RenderError, ValueError}
C16_Witness ==
    /\ job.mux_runs = 1
    /\ job.pc = "returned"
    /\ job.total_frames > batch_size

\* C17: at most one worker thread is running (a thread runs until the last
\* statement of _process_folder_thread), and a job only on it; while it runs
\* the start control is disabled; and once a worker has ended with the root
\* window still open the control is enabled again.
C17_SingleWorker ==
    /\ workers <= 1
    /\ workers = 1 <=> wpc \notin {"idle", "killed"}
    /\ wpc = "in_job" => workers = 1
    /\ workers = 1 => start_button = "disabled"
    /\ (workers = 0 /\ starts > 0 /\ surface = "open") => start_button = "normal"
C17_Witness ==
    /\ starts = 2
    /\ wpc = "in_job"
    /\ surface = "open"
    /\ job.pc = "frame"

----------------------------------------------------------------------------
(* extract_audio_features on small mel spectrograms *)

Matrices == [1..FeatBands -> [1..FeatFrames -> PowerExps]]

InitFeatures ==
    /\ surface = "open"
    /\ folder = ""
    /\ start_button = "normal"
    /\ starts = 0
    /\ workers = 0
    /\ ffmpeg_ok = TRUE
    /\ files = <<>>
    /\ style_params = Style(25, FeatBands)
    /\ out_dir = "exists"
    /\ wpc = "idle"
    /\ i = 0
    /\ attempts = <<>>
    /\ outputs = {}
    /\ calls = <<>>
    /\ job = IdleJob
    /\ mel \in Matrices
    /\ normalized = <<>>
    /\ frame = NoFrame
    /\ shapes = <<>>

\* log_mel = librosa.power_to_db(...); normalized = (log_mel - min) / (max - min)
NormalizeFeatures ==
    /\ normalized = <<>>
    /\ normalized' = extract_audio_features(mel)
    /\ UNCHANGED <<surface, guiVars, envVars, out_dir, batchVars, outputs, calls,
                   job, mel, frame, shapes>>

SpecFeatures == InitFeatures /\ [][NormalizeFeatures]_vars

\* C6: for an all-zero signal the returned matrix holds no NaN and all its
\* entries are the same defined constant.
C6_SilentIsDefinedConstant ==
    (normalized # <<>> /\ mel = SilentMel(FeatBands, FeatFrames)) =>
        /\ \A v \in Entries(normalized) : ~IsNaN(v)
        /\ Cardinality(Entries(normalized)) = 1

----------------------------------------------------------------------------
(* create_energy_bar_frame and the draw_* functions.  An energy is the     *)
(* pair <<numerator, denominator>>; a shape is what is handed to cv2: its  *)
(* points and, for a circle, its radius.                                   *)

Rect(x1, y1, x2, y2) == [kind |-> "rectangle", pts |-> {<<x1, y1>>, <<x2, y2>>}, r |-> 0]
Circle(cx, cy, r) == [kind |-> "circle", pts |-> {<<cx, cy>>}, r |-> r]
Poly(pts) == [kind |-> "polygon", pts |-> pts, r |-> 0]

\* The highlight pass is drawn when style_params['gradient_effect'] is set.
If(cond, S) == IF cond THEN S ELSE {}

draw_rectangle_bars(x, y_start, y_end, x_end, gradient) ==
    LET bar_height == y_end - y_start IN
    {Rect(x, y_start, x_end, y_end)}
    \cup If(gradient, {Rect(x, y_start, x_end, y_start + Max(1, bar_height \div 4))})

draw_rounded_bars(x, y_start, y_end, x_end, gradient) ==
    LET bar_width == x_end - x
        bar_height == y_end - y_start
        radius == Min(bar_width \div 4, 8)
    IN  {Rect(x, y_start + radius, x_end, y_end - radius),
         Rect(x + radius, y_start, x_end - radius, y_end),
         Circle(x + radius, y_start + radius, radius),
         Circle(x_end - radius, y_start + radius, radius),
         Circle(x + radius, y_end - radius, radius),
         Circle(x_end - radius, y_end - radius, radius)}
        \cup If(gradient, {Rect(x + radius, y_start, x_end - radius,
                                y_start + Max(1, bar_height \div 4))})

draw_circle_bars(x, y_start, y_end, x_end, gradient) ==
    LET bar_width == x_end - x
        bar_height == y_end - y_start
        center_x == x + bar_width \div 2
        circle_radius == Max(2, bar_width \div 4)
        circle_spacing == circle_radius * 2 + 2
        num_circles == Max(1, bar_height \div circle_spacing)
        circle_y(k) == y_end - (k + 1) * circle_spacing + circle_radius
        drawn == {k \in 0..(num_circles - 1) : circle_y(k) >= y_start}
    IN  {Circle(center_x, circle_y(k), circle_radius) : k \in drawn}
        \cup If(gradient, {Circle(center_x, circle_y(k), Max(1, circle_radius \div 2)) : k \in drawn})

draw_triangle_bars(x, y_start, y_end, x_end, gradient) ==
    LET bar_width == x_end - x
        center_x == x + bar_width \div 2
    IN  {Poly({<<center_x, y_start>>, <<x, y_end>>, <<x_end, y_end>>})}

draw_symmetric_bars(x, y_start, y_end, x_end, gradient, center_y) ==
    LET bar_height == y_end - y_start
        half_height == bar_height \div 2
    IN  {Rect(x, center_y - half_height, x_end, center_y),
         Rect(x, center_y, x_end, center_y + half_height)}
        \cup If(gradient,
                {Rect(x, center_y - half_height, x_end,
                      center_y - half_height + Max(1, half_height \div 3)),
                 Rect(x, center_y + half_height - Max(1, half_height \div 3), x_end,
                      center_y + half_height)})

draw_waterfall_bars(x, y_start, y_end, x_end, gradient) ==
    LET bar_height == y_end - y_start
        steps == Max(5, bar_height \div 5)
        step_height == bar_height \div steps
        current_y(k) == y_end - (k + 1) * step_height
    IN  {Rect(x, current_y(k), x_end, current_y(k) + step_height) : k \in 0..(steps - 1)}
        \cup If(gradient, {Rect(x, y_start, x_end, y_start + Max(1, bar_height \div 6))})

\* pulse_factor = 0.8 + 0.4 * sin(2*pi * ((frame_idx / fps) % 2.0) / 2.0), in
\* tenths.  At 1 or 2 frames per second the phase is a whole number of quarter
\* periods, where the sine is 0, 1, 0, -1.
pulse_factor(frame_idx, fps) ==
    LET quarter == ((2 * frame_idx) \div fps) % 4
    IN  CASE quarter = 0 -> 8
          [] quarter = 1 -> 12
          [] quarter = 2 -> 8
          [] quarter = 3 -> 4

draw_pulse_bars(x, y_start, y_end, x_end, gradient, frame_idx, fps) ==
    LET factor == pulse_factor(frame_idx, fps)
        bar_width == x_end - x
        bar_height == y_end - y_start
        adjusted_height == (bar_height * factor) \div 10
        adjusted_y_start == y_end - adjusted_height
        glow_radius == IF bar_width <= 0 THEN 1
                       ELSE Max(1, (bar_width * 2 * factor) \div 100)
    IN  {Rect(x, adjusted_y_start, x_end, y_end)}
        \cup If(gradient, {Rect(x - k, adjusted_y_start - k, x_end + k, y_end + k) :
                               k \in 0..(glow_radius - 1)})

draw_neon_bars(x, y_start, y_end, x_end, gradient) ==
    {Rect(x + 2, y_start + 2, x_end - 2, y_end - 2)}
    \cup If(gradient, {Rect(x, y_start, x_end, y_end),
                       Rect(x + 1, y_start + 1, x_end - 1, y_end - 1)})

\* bar_width = max(1, width // (n_bands + 1))
BarWidth(width, n_bands) == Max(1, width \div (n_bands + 1))
\* spacing = max(1, width // (n_bands * 2))
Spacing(width, n_bands) == Max(1, width \div (n_bands * 2))
\* x = i * (bar_width + spacing) + spacing
BarX(b, width, n_bands) ==
    b * (BarWidth(width, n_bands) + Spacing(width, n_bands)) + Spacing(width, n_bands)
\* x_end = min(width, x + bar_width)
BarXEnd(b, width, n_bands) == Min(width, BarX(b, width, n_bands) + BarWidth(width, n_bands))
\* bar_height = int(energy * max_bar_height), max_bar_height = height * 0.8
BarHeight(energy, height) == (energy[1] * height * 8) \div (energy[2] * 10)

\* One iteration of the loop over the bands: the shapes drawn for band b.
DrawBar(b, energy, frame_idx, f) ==
    LET x == BarX(b, f.width, f.n_bands)
        x_end == BarXEnd(b, f.width, f.n_bands)
        bar_height == BarHeight(energy, f.height)
        center_y == f.height \div 2
        half_height == bar_height \div 2
        \* bottom_margin = height * 0.1; y_end = int(height - bottom_margin)
        y_end == Min(f.height, (f.height * 9) \div 10)
        y_start == Max(0, Max(f.height \div 10, (f.height * 9) \div 10 - bar_height))
        g == f.gradient_effect
    IN  IF bar_height <= 0 THEN {}
        ELSE CASE f.bar_style = "symmetric" ->
                    draw_symmetric_bars(x, center_y - half_height, center_y + half_height,
                                        x_end, g, center_y)
               [] f.bar_style = "rectangle" -> draw_rectangle_bars(x, y_start, y_end, x_end, g)
               [] f.bar_style = "rounded" -> draw_rounded_bars(x, y_start, y_end, x_end, g)
               [] f.bar_style = "circle" -> draw_circle_bars(x, y_start, y_end, x_end, g)
               [] f.bar_style = "triangle" -> draw_triangle_bars(x, y_start, y_end, x_end, g)
               [] f.bar_style = "waterfall" -> draw_waterfall_bars(x, y_start, y_end, x_end, g)
               [] f.bar_style = "pulse" ->
                    draw_pulse_bars(x, y_start, y_end, x_end, g, frame_idx, f.fps)
               [] f.bar_style = "neon" -> draw_neon_bars(x, y_start, y_end, x_end, g)
               [] OTHER -> {}

\* create_energy_bar_frame(features, frame_idx, width, height, style_params):
\* the shapes drawn on the frame for the column `energies` of the features.
create_energy_bar_frame(energies, frame_idx, f) ==
    UNION {DrawBar(b, energies[b], frame_idx, f) : b \in DOMAIN energies}

----------------------------------------------------------------------------
(* create_energy_bar_frame on bounded inputs *)

\* Bands of the frames whose feature columns are drawn in full.
MaxBands == 3
\* Frame indices 0 .. MaxFrameIdx.
MaxFrameIdx == 3

BarStyles == {"rectangle", "rounded", "circle", "triangle", "symmetric",
              "waterfall", "pulse", "neon"}
Energies == {<<0, 4>>, <<1, 4>>, <<2, 4>>, <<4, 4>>}
FrameSizes == {<<8, 10>>, <<16, 20>>, <<40, 30>>}

\* Small frames with every band count up to MaxBands, and the default frame of
\* the application (1280x720, 64 bands).
Frames ==
    {[width |-> wh[1], height |-> wh[2], n_bands |-> n, bar_style |-> st,
      gradient_effect |-> g, fps |-> fps, energies |-> <<>>, frame_idx |-> 0] :
        wh \in FrameSizes, n \in 1..MaxBands, st \in BarStyles, g \in BOOLEAN,
        fps \in {1, 2}}
    \cup
    {[width |-> 1280, height |-> 720, n_bands |-> 64, bar_style |-> st,
      gradient_effect |-> g, fps |-> 2, energies |-> <<>>, frame_idx |-> 0] :
        st \in BarStyles, g \in BOOLEAN}

\* The feature columns drawn: every column of a small frame, the columns with
\* one energy in all bands otherwise.  The bands are numbered from 0.
Columns(n) ==
    IF n <= MaxBands THEN [0..(n - 1) -> Energies]
    ELSE {[b \in 0..(n - 1) |-> e] : e \in Energies}

InitRender ==
    /\ surface = "open"
    /\ folder = ""
    /\ start_button = "normal"
    /\ starts = 0
    /\ workers = 0
    /\ ffmpeg_ok = TRUE
    /\ files = <<>>
    /\ style_params = Style(2, 64)
    /\ out_dir = "exists"
    /\ wpc = "idle"
    /\ i = 0
    /\ attempts = <<>>
    /\ outputs = {}
    /\ calls = <<>>
    /\ job = IdleJob
    /\ mel = <<>>
    /\ normalized = <<>>
    /\ frame \in Frames
    /\ shapes = {}

\* frame = create_energy_bar_frame(features, frame_idx, width, height, style_params)
RenderBars ==
    /\ frame.energies = <<>>
    /\ \E energies \in Columns(frame.n_bands), frame_idx \in 0..MaxFrameIdx :
         /\ frame' = [frame EXCEPT !.energies = energies, !.frame_idx = frame_idx]
         /\ shapes' = create_energy_bar_frame(energies, frame_idx, frame)
    /\ UNCHANGED <<surface, guiVars, envVars, out_dir, batchVars, outputs, calls,
                   job, mel, normalized>>

SpecRender == InitRender /\ [][RenderBars]_vars

\* The shape lies in [0, width) x [0, height), a circle with its whole disc.
Inside(s, f) ==
    \A p \in s.pts :
        /\ 0 <= p[1] - s.r /\ p[1] + s.r < f.width
        /\ 0 <= p[2] - s.r /\ p[2] + s.r < f.height

\* C7: every coordinate of every shape drawn on a frame lies inside the frame.
C7_GeometryClipped == \A s \in shapes : Inside(s, frame)

\* C15: on every frame drawn the bar width is width / (n_bands + 1) less the
\* spacing, so one bar and its spacing take at most width / (n_bands + 1), and
\* every band's bar has 0 <= x < x + bar_width <= width.
C15_BarsFitFrame ==
    frame.energies # <<>> =>
        LET width == frame.width
            n_bands == frame.n_bands
            bar_width == BarWidth(width, n_bands)
            spacing == Spacing(width, n_bands)
        IN  /\ bar_width = width \div (n_bands + 1) - spacing
            /\ bar_width + spacing <= width \div (n_bands + 1)
            /\ \A b \in 0..(n_bands - 1) :
                 LET x == BarX(b, width, n_bands) IN
                 0 <= x /\ x < x + bar_width /\ x + bar_width <= width

====
